---- MODULE Spec2Model ----
(***************************************************************************)
(* Heartbeat orchestration of ymbot: the HeartbeatScheduler class          *)
(* (src/src/heartbeat/scheduler.ts), its single setTimeout timer, the      *)
(* asynchronous firings that await executeHeartbeat() and Notifier.send(), *)
(* and start()/stop().                                                     *)
(*                                                                         *)
(* Time.  Date.now() is the variable clock, counted in whole minutes since *)
(* the scheduler was constructed (one unit = 60000 ms), so that the local  *)
(* hour:minute read by isWithinActiveHours is a function of the clock.     *)
(* Heartbeat intervals are whole numbers of the same unit.                 *)
(*                                                                         *)
(* A setTimeout callback runs when its delay has elapsed (Tick does not    *)
(* pass the due time of a pending timer); an awaited executeHeartbeat(),    *)
(* notifier.send() or notifier.start() may take any amount of time.        *)
(*                                                                         *)
(* Asynchrony.  JavaScript runs every callback to its next await without   *)
(* interleaving, so one action is one such run: from a call or a promise   *)
(* resolution to the next await (or to the end of the callback).           *)
(***************************************************************************)
EXTENDS Integers, Sequences, FiniteSets, TLC

\* ---------------------------------------------------------------- bounds
\* Date.now() ranges over 0..MaxTime.
MaxTime == 2
\* Timer callbacks (pending or running) plus start() calls still awaiting
\* Notifier.start(): start() is not offered beyond this many.
MaxChains == 2
\* Clock range of the zero-latency specification SpecExact.
MaxTimeExact == 7
\* Text blocks that one stream of the executor delivers.
MaxBlocks == 2
\* calls of executeHeartbeat made one after another for one agent
MaxCalls == 2
\* how far behind the clock a time kept by the scheduler may fall where time
\* has no end (the longest an attempt may be outstanding)
MaxLag == 2

\* ---------------------------------------------------------------- inputs
MinutesPerHour == 60
MinutesPerDay == 24 * MinutesPerHour

\* "HH:MM" strings are modelled by the pair of numbers that
\* split(':').map(Number) yields.
HHMM(h, m) == <<h, m>>

NoActiveHours == [set |-> FALSE, start |-> HHMM(0, 0), end |-> HHMM(0, 0)]
ActiveHours(s, e) == [set |-> TRUE, start |-> s, end |-> e]

\* Local minute of the day at construction time (clock = 0): 09:01, so that
\* the window below is open at clock 0 and 1 and closed from clock 2 on.
DayStartChoices == {9 * MinutesPerHour + 1}
\* Configured windows: none, or 09:00-09:02.
WindowChoices == {NoActiveHours, ActiveHours(HHMM(9, 0), HHMM(9, 2))}
IntervalChoices == {1, 2}
AgentCounts == {0, 1, 2}

IntervalChoicesExact == {2, 3, 5, 7}
AgentCountsExact == {3}

Chains == 1..MaxChains

VARIABLES
  clock,          \* Date.now()
  dayStart,       \* local minute of the day at clock 0
  agents,         \* this.agents, in Map insertion order: Seq of AgentState
  running,        \* this.running
  timer,          \* this.timer: 0 = undefined, else the handle (a chain id)
  chain,          \* the timer callbacks: pending timer, or firing at an await
  startsAwaiting, \* start() calls awaiting Notifier.start()
  lastOp,         \* history: the step that led to this state
  ex,             \* one call of executeHeartbeat(agent): its locals, the
                  \* agent's sessionId, what the stream has delivered
  factory,        \* one call of createNotifier(config): config and outcome
  returned,       \* the array a caller got from getAgentStates(): references
                  \* to AgentState objects, as indices into agents
  lapse,          \* history, where it is recorded: whether stop() has taken
                  \* effect, and the due times that passed while stopped
  stopCall        \* where it is followed, the last stop() that took effect:
                  \* "" (none), "awaiting" (notifier.stop() is pending),
                  \* "resolved" or "rejected" (as notifier.stop() settled)

vars ==
  <<clock, dayStart, agents, running, timer, chain, startsAwaiting, lastOp, ex,
    factory, returned, lapse, stopCall>>

\* ---------------------------------------------------------------- helpers
Max(a, b) == IF a >= b THEN a ELSE b

\* todo (history): the agents after idx that were due when the firing began
\* lapsed (history): for a timer that start() armed and for the firing of
\* that timer, where that is recorded, the agents whose due time had passed
\* while the scheduler was stopped; {} otherwise
Idle ==
  [st |-> "idle", due |-> 0, now0 |-> 0, idx |-> 0, todo |-> {}, lapsed |-> {}]
Pending(due) ==
  [st |-> "timer", due |-> due, now0 |-> 0, idx |-> 0, todo |-> {}, lapsed |-> {}]
Invoking(now0, i) ==
  [st |-> "invoke", due |-> 0, now0 |-> now0, idx |-> i, todo |-> {}, lapsed |-> {}]
Sending(now0, i) ==
  [st |-> "send", due |-> 0, now0 |-> now0, idx |-> i, todo |-> {}, lapsed |-> {}]

\* The slot numbers carry no meaning (a handle is only compared with
\* this.timer), so the slots are kept in a canonical order: by state, due
\* time, loop start, loop position, and whether this.timer holds the handle.
StRank(st) == CASE st = "timer" -> 0 [] st = "invoke" -> 1 [] st = "send" -> 2
                [] OTHER -> 3

\* larger than every field of a slot
KeyBase == 2 * (MaxTime + MaxTimeExact) + 4

SlotKey(ch, tmr, c) ==
  (((StRank(ch[c].st) * KeyBase + ch[c].due) * KeyBase + ch[c].now0) * KeyBase
     + ch[c].idx) * KeyBase + (IF tmr = c THEN 0 ELSE 1)

\* place[c]: the rank of slot c among the keys
Places(key) ==
  [c \in Chains |->
     1 + Cardinality({d \in Chains :
           key[d] < key[c] \/ (key[d] = key[c] /\ d < c)})]

Reorder(ch, tmr, place) ==
  [chain |-> [k \in Chains |-> ch[CHOOSE c \in Chains : place[c] = k]],
   timer |-> IF tmr = 0 THEN 0 ELSE place[tmr]]

Canonical(ch, tmr) ==
  CHOOSE r \in { Reorder(ch, tmr, place) :
                   place \in { Places(key) :
                     key \in {[c \in Chains |-> SlotKey(ch, tmr, c)]} } } : TRUE

\* lastOp (history): what the last step did.  op is "fire" (a timer callback
\* began), "invokeDone" (executeHeartbeat settled) or "sendDone"
\* (notifier.send settled), with the agent and outcome of the settled call,
\* the loop start time of that firing, and the agents the step skipped at
\* the active-hours gate; op is "" after any other step.  missed is the set
\* of agents the step passed over as not due although they were due when the
\* firing began.
\* res and msg are, for the step that calls notifier.send, the settlement
\* of executeHeartbeat it acted on and the NotificationMessage it passed.
NoMessage == [text |-> "", agentId |-> 0, sessionId |-> 0]
NoSettlement ==
  [threw |-> FALSE, success |-> FALSE, shouldNotify |-> FALSE, output |-> "",
   session |-> 0]
Op(o, a, r, n, sk) ==
  [op |-> o, agent |-> a, out |-> r, now0 |-> n, skipped |-> sk, missed |-> {},
   res |-> NoSettlement, msg |-> NoMessage, lapsed |-> {}]
NoOp == Op("", 0, "", 0, {})

\* nothing recorded: stop() has not taken effect, no due time has passed
\* while stopped (at: pairs of an agent and that due time)
NoLapse == [stopped |-> FALSE, at |-> {}]

\* constructor: one AgentState per config, nextDueMs = now + heartbeatInterval;
\* sessionId is left undefined (0)
NewAgentState(config, now) ==
  [config |-> config,
   nextDueMs |-> now + config.heartbeatInterval,
   intervalMs |-> config.heartbeatInterval,
   sessionId |-> 0]

Construct(configs, now) ==
  [i \in 1..Len(configs) |-> NewAgentState(configs[i], now)]

\* The agent lists explored: at most one agent with a window, and at most
\* one agent whose interval is not the shortest one.
Scenario(cs, intervals) ==
  /\ Cardinality({i \in DOMAIN cs : cs[i].activeHours.set}) <= 1
  /\ Cardinality({i \in DOMAIN cs :
        \E v \in intervals : v < cs[i].heartbeatInterval}) <= 1

ConfigsOf(n, intervals, windows) ==
  [1..n -> [heartbeatInterval : intervals, activeHours : windows]]

Scenarios ==
  UNION { {cs \in ConfigsOf(n, IntervalChoices, WindowChoices) :
             Scenario(cs, IntervalChoices)} : n \in AgentCounts }

ScenariosExact ==
  UNION { ConfigsOf(n, IntervalChoicesExact, {NoActiveHours}) :
            n \in AgentCountsExact }

\* ---------------------------------------------------------------- isWithinActiveHours
Minutes(hhmm) == hhmm[1] * MinutesPerHour + hhmm[2]

\* new Date().getHours() * 60 + new Date().getMinutes()
CurrentTime(now) == (dayStart + now) % MinutesPerDay

\* mutant: the gate compares nothing
NoGate(config, now) == TRUE

\* mutant: the end of the window is exclusive
IsWithinActiveHoursEndExclusive(config, now) ==
  IF ~config.activeHours.set
  THEN TRUE
  ELSE /\ CurrentTime(now) >= Minutes(config.activeHours.start)
       /\ CurrentTime(now) < Minutes(config.activeHours.end)

\* mutant: a window whose start is later than its end is taken to run over
\* midnight
IsWithinActiveHoursOvernight(config, now) ==
  IF ~config.activeHours.set
  THEN TRUE
  ELSE IF Minutes(config.activeHours.start) <= Minutes(config.activeHours.end)
  THEN /\ CurrentTime(now) >= Minutes(config.activeHours.start)
       /\ CurrentTime(now) <= Minutes(config.activeHours.end)
  ELSE \/ CurrentTime(now) >= Minutes(config.activeHours.start)
       \/ CurrentTime(now) <= Minutes(config.activeHours.end)

\* currentTime >= startTime && currentTime <= endTime, true without a window
IsWithinActiveHours(config, now) ==
  IF ~config.activeHours.set
  THEN TRUE
  ELSE /\ CurrentTime(now) >= Minutes(config.activeHours.start)
       /\ CurrentTime(now) <= Minutes(config.activeHours.end)

\* ---------------------------------------------------------------- scheduleNext
RECURSIVE MinDueFrom(_, _, _)
MinDueFrom(ags, i, best) ==
  IF i > Len(ags) THEN best
  ELSE MinDueFrom(ags, i + 1,
                  IF ags[i].nextDueMs < best THEN ags[i].nextDueMs ELSE best)

\* mutant: the comparison of the loop reversed ('>' for '<')
RECURSIVE MaxDueFrom(_, _, _)
MaxDueFrom(ags, i, best) ==
  IF i > Len(ags) THEN best
  ELSE MaxDueFrom(ags, i + 1,
                  IF ags[i].nextDueMs > best THEN ags[i].nextDueMs ELSE best)

MaxDue(ags) == MaxDueFrom(ags, 2, ags[1].nextDueMs)

\* the loop of scheduleNext over this.agents.values(); only used with agents
MinDue(ags) == MinDueFrom(ags, 2, ags[1].nextDueMs)

\* mutant: the timer is never armed for the present moment
DelayAtLeastOne(ags, now) == Max(1, MinDue(ags) - now)

\* const delay = Math.max(0, nextDueMs - Date.now())
Delay(ags, now) == Max(0, MinDue(ags) - now)

\* mutant: no timer is armed when an agent is already overdue
ScheduleNextFutureOnly(run, ags, tmr, ch, c, now) ==
  IF ~run \/ Len(ags) = 0 \/ MinDue(ags) < now
  THEN Canonical([ch EXCEPT ![c] = Idle], tmr)
  ELSE Canonical([ch EXCEPT ![c] = Pending(now + Delay(ags, now))], c)

\* scheduleNext() run for the timer callback kept in slot c: arms a new
\* one-shot timer there, or leaves the slot empty.
ScheduleNext(run, ags, tmr, ch, c, now) ==
  IF ~run \/ Len(ags) = 0
  THEN Canonical([ch EXCEPT ![c] = Idle], tmr)
  ELSE Canonical([ch EXCEPT ![c] = Pending(now + Delay(ags, now))], c)

\* ---------------------------------------------------------------- executeDueHeartbeats
\* mutant: the loop's start time used instead of the time of completion
NextDueFromLoopStart(agent, now0, now) == now0 + agent.intervalMs

\* agent.nextDueMs = Date.now() + agent.intervalMs (now0 is the loop's start)
NextDueAfter(agent, now0, now) == now + agent.intervalMs

\* mutant: the due test left out, every agent taken at every firing
AlwaysDue(agent, now0) == TRUE

\* the negation of the loop's "now < agent.nextDueMs" (continue)
IsDue(agent, now0) == ~(now0 < agent.nextDueMs)

\* mutant: the agent is advanced from its previous due time
AdvanceFromDue(ags, i, now0, now) ==
  [ags EXCEPT ![i].nextDueMs = @ + ags[i].intervalMs]

Advance(ags, i, now0, now) ==
  [ags EXCEPT ![i].nextDueMs = NextDueAfter(ags[i], now0, now)]

\* mutant: the outer catch does not reschedule the agent
SettleInvokeCatchForgets(ags, i, now0, now, out) ==
  IF out = "throw" THEN ags ELSE Advance(ags, i, now0, now)

\* mutant: a rejected send leaves the iteration before the agent is rescheduled
SettleSendThrowSkips(ags, i, now0, now, out) ==
  IF out = "throw" THEN ags ELSE Advance(ags, i, now0, now)

\* this.agents after executeHeartbeat(agent i) has settled with a result
\* that is not sent (success without notification, success=false, or a
\* rejection caught by the outer catch)
SettleInvoke(ags, i, now0, now, out) == Advance(ags, i, now0, now)

\* this.agents after notifier.send() for agent i has settled (resolved, or
\* rejected and caught by the inner catch)
SettleSend(ags, i, now0, now, out) == Advance(ags, i, now0, now)

\* The for loop from agent i on, run until executeHeartbeat is called (at)
\* or the loop ends (at = 0); the agents skipped at the gate are advanced.
RECURSIVE RunLoop(_, _, _, _, _)
RunLoop(ags, i, now0, now, sk) ==
  IF i > Len(ags) THEN [agents |-> ags, at |-> 0, skipped |-> sk]
  ELSE IF ~IsDue(ags[i], now0) THEN RunLoop(ags, i + 1, now0, now, sk)
  ELSE IF ~IsWithinActiveHours(ags[i].config, now)
       THEN RunLoop(Advance(ags, i, now0, now), i + 1, now0, now, sk \cup {i})
  ELSE [agents |-> ags, at |-> i, skipped |-> sk]

\* History of the firing of slot c, whose loop goes on from agent i to agent
\* at (0: to the end): the agents due when the firing began (when the timer
\* fires, those due now; later, those remembered in the slot) that are still
\* ahead, and those the loop has passed over as no longer due.
DueAtStart(c, ags, now0) ==
  IF chain[c].st = "timer"
  THEN {j \in DOMAIN ags : IsDue(ags[j], now0)}
  ELSE chain[c].todo
TodoAfter(c, ags, i, now0, at) == {j \in DueAtStart(c, ags, now0) : j > at}
PassedOver(c, ags, i, now0, at) ==
  {j \in DueAtStart(c, ags, now0) :
     j >= i /\ (at = 0 \/ j < at) /\ ~IsDue(ags[j], now0)}

\* mutant: a rejection leaves the callback before scheduleNext()
ResumeThrowEndsCallback(c, ags, i, now0, o, a, out) ==
  \E r \in {RunLoop(ags, i, now0, clock, {})} :
    /\ agents' = r.agents
    /\ \E s \in {IF r.at # 0
                  THEN Canonical([chain EXCEPT
                                    ![c] = [Invoking(now0, r.at) EXCEPT
                                              !.todo = TodoAfter(c, ags, i, now0, r.at),
                                              !.lapsed = chain[c].lapsed]],
                                 timer)
                  ELSE ScheduleNext(running /\ out # "throw", r.agents, timer,
                                    chain, c, clock)} :
         /\ chain' = s.chain
         /\ timer' = s.timer
    /\ lastOp' = [Op(o, a, out, now0, r.skipped) EXCEPT
                    !.missed = PassedOver(c, ags, i, now0, r.at),
                    !.lapsed = chain[c].lapsed]
    /\ UNCHANGED <<ex, factory, returned, lapse, stopCall, clock, dayStart, running, startsAwaiting>>

\* The timer callback of slot c resumes its loop at agent i; when the loop
\* ends the callback goes on to scheduleNext().
Resume(c, ags, i, now0, o, a, out) ==
  \E r \in {RunLoop(ags, i, now0, clock, {})} :
    /\ agents' = r.agents
    /\ \E s \in {IF r.at # 0
                  THEN Canonical([chain EXCEPT
                                    ![c] = [Invoking(now0, r.at) EXCEPT
                                              !.todo = TodoAfter(c, ags, i, now0, r.at),
                                              !.lapsed = chain[c].lapsed]],
                                 timer)
                  ELSE ScheduleNext(running, r.agents, timer, chain, c, clock)} :
         /\ chain' = s.chain
         /\ timer' = s.timer
    /\ lastOp' = [Op(o, a, out, now0, r.skipped) EXCEPT
                    !.missed = PassedOver(c, ags, i, now0, r.at),
                    !.lapsed = chain[c].lapsed]
    /\ UNCHANGED <<ex, factory, returned, lapse, stopCall, clock, dayStart, running, startsAwaiting>>

\* ---------------------------------------------------------------- executor: strings
\* A string is the sequence of its characters.  The two literals of the
\* executor are abbreviated to two characters each: 'HEARTBEAT_OK' to "HK"
\* and '## Response' to "#R"; " " is whitespace and "a" any other character.
Sentinel == <<"H", "K">>
Marker == <<"#", "R">>
Space == " "

\* s.includes(sub)
Includes(s, sub) ==
  \E i \in 1..(Len(s) - Len(sub) + 1) : SubSeq(s, i, i + Len(sub) - 1) = sub

\* s.indexOf(sub): the 0-based place of the first occurrence, or -1
IndexOf(s, sub) ==
  IF ~Includes(s, sub) THEN -1
  ELSE (CHOOSE i \in 1..(Len(s) - Len(sub) + 1) :
          /\ SubSeq(s, i, i + Len(sub) - 1) = sub
          /\ \A j \in 1..(i - 1) : SubSeq(s, j, j + Len(sub) - 1) # sub) - 1

\* s.substring(from), from 0-based
Substring(s, from) == SubSeq(s, from + 1, Len(s))

RECURSIVE TrimStart(_)
TrimStart(s) ==
  IF Len(s) > 0 /\ Head(s) = Space THEN TrimStart(Tail(s)) ELSE s

RECURSIVE TrimEnd(_)
TrimEnd(s) ==
  IF Len(s) > 0 /\ s[Len(s)] = Space THEN TrimEnd(SubSeq(s, 1, Len(s) - 1))
  ELSE s

\* mutant: trailing whitespace kept
TrimStartOnly(s) == TrimStart(s)

\* s.trim()
Trim(s) == TrimEnd(TrimStart(s))

\* extractFinalResponse(output)
ExtractFinalResponse(output) ==
  LET markerIndex == IndexOf(output, Marker) IN
    IF markerIndex = -1 THEN Trim(output)
    ELSE Trim(Substring(output, markerIndex + Len(Marker)))

\* ---------------------------------------------------------------- executor: inputs
\* text of a text block: empty, a letter, the sentinel, or one half of it
TextChoices == {<<>>, <<"a">>, Sentinel, <<"H">>, <<"K">>}

ToolUse == [type |-> "tool_use", text |-> <<>>]
Text(t) == [type |-> "text", text |-> t]
Blocks == {ToolUse} \cup {Text(t) : t \in TextChoices}

TextBlocksIn(content) ==
  Cardinality({k \in DOMAIN content : content[k].type = "text"})

\* message.content of an assistant message: at most two blocks, at most k
\* of them text blocks
ContentChoices(k) ==
  {c \in {<<>>} \cup {<<b>> : b \in Blocks}
           \cup {<<b1, b2>> : b1 \in Blocks, b2 \in Blocks} :
     TextBlocksIn(c) <= k}

\* msg.result of the result message: up to three pieces put together
\* (undefined is read as '')
ResultPieces == {<<>>, <<Space>>, <<"a">>, Sentinel, Marker}
ResultChoices == {p \o q \o r : p \in ResultPieces, q \in ResultPieces, r \in ResultPieces}

\* Session ids: 0 stands for undefined.  The agent has none or 2; the
\* messages of one stream carry none or 1.
AgentSessionChoices == {0, 2}
StreamSessionChoices == {0, 1}
\* msg.session_id of one message where the messages of a stream differ
MsgSessionChoices == {0, 1, 2}

\* The character threshold of the design's process_heartbeat_response
\* (ack_max_chars), scaled to the texts above.  AgentConfig has no such
\* setting and the executor reads none.
AckMaxCharsChoices == {0, 1}

\* ---------------------------------------------------------------- executor: state
NoResult ==
  [success |-> FALSE, shouldNotify |-> FALSE, output |-> <<>>, error |-> FALSE]
Success(n, o) ==
  [success |-> TRUE, shouldNotify |-> n, output |-> o, error |-> FALSE]
Failure ==
  [success |-> FALSE, shouldNotify |-> FALSE, output |-> <<>>, error |-> TRUE]

\* What is remembered of the calls made before for the same agent: how many,
\* agent.sessionId as they left it, the result of the last one and whether
\* its stream delivered a result message.
NoPrior(agentSession) ==
  [n |-> 0, token |-> agentSession, ret |-> NoResult, hadResult |-> FALSE]

\* pc: "idle" (no call), "load" (await loadHeartbeatPrompt), "stream" (in the
\* for await), "final" (the result message has been handled), "returned",
\* "thrown" (the call rejected).
ExState(pc, agentSession, streamSession, ackMaxChars) ==
  [ pc |-> pc,
    shouldNotify |-> FALSE,           \* let shouldNotify = false
    output |-> <<>>,                  \* let output = ''
    sessionId |-> agentSession,       \* let sessionId = agent.sessionId
    agentSession |-> agentSession,    \* agent.sessionId
    streamSession |-> streamSession,  \* msg.session_id of this stream
    ackMaxChars |-> ackMaxChars,
    started |-> FALSE,                \* history: a message has been delivered
    hadResult |-> FALSE,              \* history: the result message was handled
    blocks |-> 0,                     \* history: text blocks handled
    acc |-> <<>>,                     \* history: all text of the text blocks
    resultText |-> <<>>,              \* history: msg.result || ''
    threwAt |-> "",                   \* history: where the stream raised
    ret |-> NoResult,                 \* the HeartbeatResult returned
    resume |-> 0,                     \* the resume option given to query()
    lastSeen |-> 0,                   \* history: last session_id of the stream
    prior |-> NoPrior(agentSession) ] \* history: the call before this one

ExIdle == ExState("idle", 0, 0, 0)

\* ---------------------------------------------------------------- notifier factory: inputs
\* A value that is absent from the configuration, and the two kinds of
\* string a present one can be.
Undefined == "undefined"
TokenChoices == {Undefined, "", "xoxb"}
AppTokenChoices == {Undefined, "", "xapp"}
ChannelChoices == {"", "#general"}

\* !value is false: the value is there and not the empty string
Truthy(value) == value # Undefined /\ value # ""

\* AppConfig as createNotifier reads it: notifications and slack tell
\* whether config.notifications and config.notifications.slack are there.
AppConfig(notifications, slack, enabled, botToken, appToken, channel) ==
  [notifications |-> notifications, slack |-> slack, enabled |-> enabled,
   botToken |-> botToken, appToken |-> appToken, channel |-> channel]
NoNotifications == AppConfig(FALSE, FALSE, FALSE, Undefined, Undefined, Undefined)
NoSlack == AppConfig(TRUE, FALSE, FALSE, Undefined, Undefined, Undefined)

AppConfigs ==
  {NoNotifications, NoSlack}
    \cup {AppConfig(TRUE, TRUE, e, b, a, ch) :
            e \in BOOLEAN, b \in TokenChoices, a \in AppTokenChoices,
            ch \in ChannelChoices}

\* factory.pc: "idle" (no call), "call" (createNotifier about to run),
\* "returned", "thrown"; slackThrows: whether new SlackNotifier(...) raises
\* for this configuration
FactoryState(pc, config, slackThrows) ==
  [pc |-> pc, config |-> config, slackThrows |-> slackThrows, notifier |-> "none"]

FactoryIdle == FactoryState("idle", NoNotifications, FALSE)

\* ---------------------------------------------------------------- state
Live == {c \in Chains : chain[c].st # "idle"}
FreeSlot == CHOOSE c \in Chains : chain[c].st = "idle"

InitWith(configs) ==
  /\ clock = 0
  /\ dayStart \in DayStartChoices
  /\ \E cs \in configs : agents = Construct(cs, 0)
  /\ running = FALSE
  /\ timer = 0
  /\ chain = [c \in Chains |-> Idle]
  /\ startsAwaiting = 0
  /\ lastOp = NoOp
  /\ ex = ExIdle
  /\ factory = FactoryIdle
  /\ returned = <<>>
  /\ lapse = NoLapse
  /\ stopCall = ""

Init == InitWith(Scenarios)

\* mutant: start() without the "already running" guard
StartAgain ==
  /\ Cardinality(Live) + startsAwaiting < MaxChains
  /\ running' = TRUE
  /\ startsAwaiting' = startsAwaiting + 1
  /\ lastOp' = NoOp
  /\ UNCHANGED <<ex, factory, returned, lapse, stopCall, clock, dayStart, agents, timer, chain>>

\* start(): logs and returns when running; else running = true and
\* notifier.start() is called and awaited (startsAwaiting counts the calls
\* of notifier.start() that have not settled).
Start ==
  /\ running \/ Cardinality(Live) + startsAwaiting < MaxChains
  /\ IF running
     THEN /\ lastOp' = Op("start", 0, "noop", 0, {})
          /\ UNCHANGED <<running, startsAwaiting>>
     ELSE /\ running' = TRUE
          /\ startsAwaiting' = startsAwaiting + 1
          /\ lastOp' = NoOp
  /\ UNCHANGED <<ex, factory, returned, lapse, stopCall, clock, dayStart, agents, timer, chain>>

\* notifier.start() resolves: start() goes on to scheduleNext()
NotifierStarted ==
  /\ startsAwaiting > 0
  /\ startsAwaiting' = startsAwaiting - 1
  /\ \E s \in {ScheduleNext(running, agents, timer, chain, FreeSlot, clock)} :
       /\ chain' = s.chain
       /\ timer' = s.timer
  /\ lastOp' = NoOp
  /\ UNCHANGED <<ex, factory, returned, lapse, stopCall, clock, dayStart, agents, running>>

\* the agents whose present due time passed while the scheduler was stopped
Lapsed(ags, h) == {i \in DOMAIN ags : <<i, ags[i].nextDueMs>> \in h.at}

\* the same step, with the timer that start() arms marked with the agents
\* whose due time passed while the scheduler was stopped
NotifierStartedMarked ==
  /\ startsAwaiting > 0
  /\ startsAwaiting' = startsAwaiting - 1
  /\ \E s \in {ScheduleNext(running, agents, timer, chain, FreeSlot, clock)} :
       /\ chain' = IF running /\ Len(agents) > 0
                   THEN [s.chain EXCEPT ![s.timer].lapsed = Lapsed(agents, lapse)]
                   ELSE s.chain
       /\ timer' = s.timer
  /\ lastOp' = NoOp
  /\ UNCHANGED <<ex, factory, returned, lapse, stopCall, clock, dayStart, agents, running>>

\* notifier.start() rejects (SlackNotifier rethrows): start() rejects
NotifierStartFailed ==
  /\ startsAwaiting > 0
  /\ startsAwaiting' = startsAwaiting - 1
  /\ lastOp' = NoOp
  /\ UNCHANGED <<ex, factory, returned, lapse, stopCall, clock, dayStart, agents, running, timer, chain>>

\* clearTimeout(handle): cancels the timer if it is still pending
ClearTimeout(ch, handle) ==
  IF handle # 0 /\ ch[handle].st = "timer"
  THEN [ch EXCEPT ![handle] = Idle]
  ELSE ch

\* mutant: stop() without the "not running" guard
StopAgain ==
  /\ running' = FALSE
  /\ chain' = Canonical(ClearTimeout(chain, timer), 0).chain
  /\ timer' = 0
  /\ lastOp' = Op("stop", 0, "", 0, {})
  /\ UNCHANGED <<ex, factory, returned, lapse, stopCall, clock, dayStart, agents, startsAwaiting>>

\* stop(): no-op when not running; else running = false, the timer is
\* cleared and notifier.stop() is awaited (nothing of the scheduler changes
\* when it settles).
Stop ==
  /\ IF ~running
     THEN /\ lastOp' = Op("stop", 0, "noop", 0, {})
          /\ UNCHANGED <<running, timer, chain>>
     ELSE /\ running' = FALSE
          /\ chain' = Canonical(ClearTimeout(chain, timer), 0).chain
          /\ timer' = 0
          /\ lastOp' = Op("stop", 0, "", 0, {})
  /\ UNCHANGED <<ex, factory, returned, lapse, stopCall, clock, dayStart, agents, startsAwaiting>>

\* the setTimeout callback of slot c runs: executeDueHeartbeats() from the
\* first agent with now = Date.now()
TimerFire(c) ==
  /\ chain[c].st = "timer"
  /\ clock >= chain[c].due
  /\ Resume(c, agents, 1, clock, "fire", 0, "")

\* What the awaited executeHeartbeat(agent) settles with: a HeartbeatResult
\* (output is "" or some text), or a rejection.
\* session is the last session id a message of the stream carried (0: none).
Returned(s, n, o) ==
  [threw |-> FALSE, success |-> s, shouldNotify |-> n, output |-> o, session |-> 0]
Rejected ==
  [threw |-> TRUE, success |-> FALSE, shouldNotify |-> FALSE, output |-> "",
   session |-> 0]
\* The result to be sent, the results that differ from it in one field, the
\* result of executeHeartbeat's own catch, and the rejection.
InvokeSettlements ==
  { Returned(TRUE, TRUE, "text"),
    Returned(TRUE, TRUE, ""),
    Returned(TRUE, FALSE, "text"),
    Returned(FALSE, TRUE, "text"),
    Returned(FALSE, FALSE, ""),
    Rejected }

\* mutant: the output is not tested before the send
OutcomeIgnoresOutput(res) ==
  IF res.threw THEN "throw"
  ELSE IF ~res.success THEN "fail"
  ELSE IF res.shouldNotify THEN "notify"
  ELSE "quiet"

\* The branch the loop takes on the settlement: the outer catch, the else of
\* "if (success)", the send under "if (shouldNotify && output)", or neither.
Outcome(res) ==
  IF res.threw THEN "throw"
  ELSE IF ~res.success THEN "fail"
  ELSE IF res.shouldNotify /\ res.output # "" THEN "notify"
  ELSE "quiet"

\* Settlements of streams whose messages carry session ids.
InvokeSettlementsWithSession ==
  {[r EXCEPT !.session = sid] :
     r \in {Returned(TRUE, TRUE, "text"), Returned(TRUE, TRUE, "more"),
            Returned(TRUE, FALSE, "text"), Returned(FALSE, FALSE, ""), Rejected},
     sid \in MsgSessionChoices}

\* mutant: the session id is stored on the first agent of the map
StoreSessionOnFirst(ags, i, res) ==
  IF res.success /\ res.session # 0
  THEN [ags EXCEPT ![1].sessionId = res.session]
  ELSE ags

\* What the call of executeHeartbeat for agent i has done to this.agents when
\* it settles: on success agent.sessionId = sessionId, the last session id
\* of the stream, or agent.sessionId again when the stream carried none (no
\* other call for the agent being under way).
StoreSession(ags, i, res) ==
  IF res.success /\ res.session # 0
  THEN [ags EXCEPT ![i].sessionId = res.session]
  ELSE ags

\* mutant: the metadata carries no session id
NotificationWithoutSession(ags, i, res) ==
  [text |-> res.output, agentId |-> i, sessionId |-> 0]

\* The argument of notifier.send: {text: output, metadata: {sessionId:
\* agent.sessionId, agentId: agent.agentId, timestamp}}, read from the
\* AgentState when the call is made.  The agent's place in the map stands
\* for its agentId; the timestamp is left out.
Notification(ags, i, res) ==
  [text |-> res.output, agentId |-> i, sessionId |-> ags[i].sessionId]

\* executeHeartbeat(agent) settles with res for the firing of slot c
InvokeDone(c, res) ==
  /\ chain[c].st = "invoke"
  /\ \E out \in {Outcome(res)} :
     LET i == chain[c].idx
         now0 == chain[c].now0 IN
     IF out = "notify"
     THEN /\ \E s \in {Canonical([chain EXCEPT
                                       ![c] = [Sending(now0, i) EXCEPT
                                                 !.todo = chain[c].todo,
                                                 !.lapsed = chain[c].lapsed]],
                                    timer)} :
               /\ chain' = s.chain
               /\ timer' = s.timer
          /\ agents' = StoreSession(agents, i, res)
          /\ lastOp' = [Op("invokeDone", i, out, now0, {}) EXCEPT
                          !.res = res,
                          !.msg = Notification(StoreSession(agents, i, res), i, res)]
          /\ UNCHANGED <<ex, factory, returned, lapse, stopCall, clock, dayStart, running, startsAwaiting>>
     ELSE Resume(c, SettleInvoke(StoreSession(agents, i, res), i, now0, clock, out),
                 i + 1, now0, "invokeDone", i, out)

\* notifier.send() settles for the firing of slot c
SendDone(c, out) ==
  /\ chain[c].st = "send"
  /\ LET i == chain[c].idx
         now0 == chain[c].now0 IN
     Resume(c, SettleSend(agents, i, now0, clock, out), i + 1, now0,
            "sendDone", i, out)

\* A setTimeout callback runs when its delay has elapsed: the clock does not
\* pass the due time of a pending timer.
TimerDue == \E c \in Chains : chain[c].st = "timer" /\ clock >= chain[c].due

TickTo(max) ==
  /\ clock < max
  /\ ~TimerDue
  /\ clock' = clock + 1
  /\ lastOp' = NoOp
  /\ UNCHANGED <<ex, factory, returned, lapse, stopCall, dayStart, agents, running, timer, chain, startsAwaiting>>

Tick == TickTo(MaxTime)

\* the branches of Outcome: success with shouldNotify and output / success
\* without / success=false / rejection
InvokeOutcomes == {"notify", "quiet", "fail", "throw"}
SendOutcomes == {"ok", "throw"}

Next ==
  \/ Start
  \/ NotifierStarted
  \/ NotifierStartFailed
  \/ Stop
  \/ \E c \in Chains : TimerFire(c)
  \/ \E c \in Chains : \E res \in InvokeSettlements : InvokeDone(c, res)
  \/ \E c \in Chains : \E out \in SendOutcomes : SendDone(c, out)
  \/ Tick

Spec == Init /\ [][Next]_vars

\* ---------------------------------------------------------------- zero latency
\* The scheduler is started at construction time, never stopped, and every
\* asynchronous call settles before the clock moves on.
InitExact == InitWith(ScenariosExact)

Busy == startsAwaiting > 0 \/ \E c \in Chains : chain[c].st \in {"invoke", "send"}

TickExact ==
  /\ running
  /\ ~Busy
  /\ TickTo(MaxTimeExact)

NextExact ==
  \/ Start
  \/ NotifierStarted
  \/ \E c \in Chains : TimerFire(c)
  \/ \E c \in Chains : \E res \in InvokeSettlements : InvokeDone(c, res)
  \/ \E c \in Chains : \E out \in SendOutcomes : SendDone(c, out)
  \/ TickExact

SpecExact == InitExact /\ [][NextExact]_vars

\* ---------------------------------------------------------------- restart
\* The scheduler with the timers that start() arms told apart from those the
\* timer callback arms.
\* stop(), with its taking effect recorded
StopMarked ==
  /\ IF ~running
     THEN /\ lastOp' = Op("stop", 0, "noop", 0, {})
          /\ UNCHANGED <<running, timer, chain, lapse>>
     ELSE /\ running' = FALSE
          /\ chain' = Canonical(ClearTimeout(chain, timer), 0).chain
          /\ timer' = 0
          /\ lastOp' = Op("stop", 0, "", 0, {})
          /\ lapse' = [lapse EXCEPT !.stopped = TRUE]
  /\ UNCHANGED <<ex, factory, returned, stopCall, clock, dayStart, agents,
                 startsAwaiting>>

\* a time unit passes, with the due times it reaches while the scheduler is
\* stopped recorded (and those no longer an agent's due time forgotten)
TickMarked ==
  /\ clock < MaxTime
  /\ ~TimerDue
  /\ clock' = clock + 1
  /\ lapse' = [lapse EXCEPT !.at =
                 {p \in @ : agents[p[1]].nextDueMs = p[2]}
                   \cup {<<i, clock + 1>> : i \in
                           {j \in DOMAIN agents :
                              /\ lapse.stopped /\ ~running
                              /\ agents[j].nextDueMs = clock + 1}}]
  /\ lastOp' = NoOp
  /\ UNCHANGED <<ex, factory, returned, stopCall, dayStart, agents, running,
                 timer, chain, startsAwaiting>>

NextRestart ==
  \/ Start
  \/ NotifierStartedMarked
  \/ NotifierStartFailed
  \/ StopMarked
  \/ \E c \in Chains : TimerFire(c)
  \/ \E c \in Chains : \E res \in InvokeSettlements : InvokeDone(c, res)
  \/ \E c \in Chains : \E out \in SendOutcomes : SendDone(c, out)
  \/ TickMarked

SpecRestart == Init /\ [][NextRestart]_vars

\* ---------------------------------------------------------------- stop() awaiting
\* The scheduler with the await of stop() followed: notifier.stop() pending,
\* then resolved or rejected (SlackNotifier.stop rethrows what app.stop()
\* raises).  One stop() is followed at a time.
StopOutcomes == {"resolved", "rejected"}

\* stop() up to its await
StopAwaits ==
  /\ IF ~running
     THEN /\ lastOp' = Op("stop", 0, "noop", 0, {})
          /\ UNCHANGED <<running, timer, chain, stopCall>>
     ELSE /\ stopCall # "awaiting"
          /\ running' = FALSE
          /\ chain' = Canonical(ClearTimeout(chain, timer), 0).chain
          /\ timer' = 0
          /\ lastOp' = Op("stop", 0, "", 0, {})
          /\ stopCall' = "awaiting"
  /\ UNCHANGED <<ex, factory, returned, lapse, clock, dayStart, agents,
                 startsAwaiting>>

\* notifier.stop() settles: stop() logs and returns, or rejects
NotifierStopSettled(out) ==
  /\ stopCall = "awaiting"
  /\ stopCall' = out
  /\ lastOp' = Op("stopDone", 0, out, 0, {})
  /\ UNCHANGED <<ex, factory, returned, lapse, clock, dayStart, agents, running,
                 timer, chain, startsAwaiting>>

NextStop ==
  \/ Start
  \/ NotifierStarted
  \/ NotifierStartFailed
  \/ StopAwaits
  \/ \E out \in StopOutcomes : NotifierStopSettled(out)
  \/ \E c \in Chains : TimerFire(c)
  \/ \E c \in Chains : \E res \in InvokeSettlements : InvokeDone(c, res)
  \/ \E c \in Chains : \E out \in SendOutcomes : SendDone(c, out)
  \/ Tick

SpecStop == Init /\ [][NextStop]_vars

\* ---------------------------------------------------------------- windows over midnight
\* The scheduler, started and not stopped, with agents whose window has its
\* start later than its end (22:00-02:00), constructed at 21:59, at 23:58
\* (midnight is two time units on), at 01:59 or at noon.
OvernightDayStartChoices ==
  {21 * MinutesPerHour + 59, 23 * MinutesPerHour + 58, MinutesPerHour + 59,
   12 * MinutesPerHour}
OvernightWindowChoices == {NoActiveHours, ActiveHours(HHMM(22, 0), HHMM(2, 0))}

InitOvernight ==
  /\ clock = 0
  /\ dayStart \in OvernightDayStartChoices
  /\ \E n \in {1, 2} :
       \E cs \in ConfigsOf(n, IntervalChoices, OvernightWindowChoices) :
         agents = Construct(cs, 0)
  /\ running = FALSE
  /\ timer = 0
  /\ chain = [c \in Chains |-> Idle]
  /\ startsAwaiting = 0
  /\ lastOp = NoOp
  /\ ex = ExIdle
  /\ factory = FactoryIdle
  /\ returned = <<>>
  /\ lapse = NoLapse
  /\ stopCall = ""

NextOvernight ==
  \/ Start
  \/ NotifierStarted
  \/ \E c \in Chains : TimerFire(c)
  \/ \E c \in Chains : \E res \in InvokeSettlements : InvokeDone(c, res)
  \/ \E c \in Chains : \E out \in SendOutcomes : SendDone(c, out)
  \/ Tick

SpecOvernight == InitOvernight /\ [][NextOvernight]_vars

\* ---------------------------------------------------------------- time without end
\* The scheduler, started and never stopped, with time going on for ever.
\* The code reads times only to compare them with one another and to take
\* their differences (no agent has a window here, so the local time is not
\* read), so once the clock has reached MaxLag the passing of a time unit is
\* written as every kept time falling back by one.  Time does not pass
\* while a time kept would fall more than MaxLag behind: what is
\* outstanding that long settles first.
ScenariosLive == ConfigsOf(2, IntervalChoices, {NoActiveHours})

InitLive == InitWith(ScenariosLive)

Earlier(t) == IF t = 0 THEN 0 ELSE t - 1

Stamps ==
  {agents[i].nextDueMs : i \in DOMAIN agents}
    \cup {chain[c].due : c \in {x \in Chains : chain[x].st = "timer"}}
    \cup {chain[c].now0 : c \in {x \in Chains : chain[x].st \in {"invoke", "send"}}}

TickLive ==
  /\ ~TimerDue
  /\ IF clock < MaxLag
     THEN /\ clock' = clock + 1
          /\ UNCHANGED <<agents, chain>>
     ELSE /\ \A t \in Stamps : t > 0
          /\ agents' = [i \in DOMAIN agents |->
                          [agents[i] EXCEPT !.nextDueMs = @ - 1]]
          /\ chain' = [c \in Chains |->
                         [chain[c] EXCEPT !.due = Earlier(@), !.now0 = Earlier(@)]]
          /\ UNCHANGED clock
  /\ lastOp' = NoOp
  /\ UNCHANGED <<ex, factory, returned, lapse, stopCall, dayStart, running, timer, startsAwaiting>>

NextLive ==
  \/ Start
  \/ NotifierStarted
  \/ \E c \in Chains : TimerFire(c)
  \/ \E c \in Chains : \E res \in InvokeSettlements : InvokeDone(c, res)
  \/ \E c \in Chains : \E out \in SendOutcomes : SendDone(c, out)
  \/ TickLive

\* start() is called and notifier.start() resolves; a timer that is due
\* fires; every invocation and every send settles; time goes on.
SpecLive ==
  /\ InitLive
  /\ [][NextLive]_vars
  /\ WF_vars(~running /\ Start)
  /\ WF_vars(NotifierStarted)
  /\ WF_vars(\E c \in Chains : TimerFire(c))
  /\ WF_vars(\E c \in Chains : \E res \in InvokeSettlements : InvokeDone(c, res))
  /\ WF_vars(\E c \in Chains : \E out \in SendOutcomes : SendDone(c, out))
  /\ WF_vars(TickLive)

\* ---------------------------------------------------------------- session ids
\* The scheduler, started and never stopped, with streams whose messages
\* carry session ids.
NextSessions ==
  \/ Start
  \/ NotifierStarted
  \/ \E c \in Chains : TimerFire(c)
  \/ \E c \in Chains : \E res \in InvokeSettlementsWithSession : InvokeDone(c, res)
  \/ \E c \in Chains : \E out \in SendOutcomes : SendDone(c, out)
  \/ Tick

SpecSessions == Init /\ [][NextSessions]_vars

\* ---------------------------------------------------------------- the gate alone
\* Local minute of the day at clock 0, and windows, for calls of
\* isWithinActiveHours on its own: the minutes around 09:00 and 09:02, noon
\* and the minutes before midnight; no window, 09:00-09:02, the one minute
\* 09:01, the whole day, and a window whose end is before its start.
GateDayStartChoices ==
  {8 * MinutesPerHour + 58, 9 * MinutesPerHour + 1, 12 * MinutesPerHour,
   23 * MinutesPerHour + 58}
GateWindowChoices ==
  {NoActiveHours,
   ActiveHours(HHMM(9, 0), HHMM(9, 2)),
   ActiveHours(HHMM(9, 1), HHMM(9, 1)),
   ActiveHours(HHMM(0, 0), HHMM(23, 59)),
   ActiveHours(HHMM(22, 0), HHMM(6, 0))}

\* isWithinActiveHours(agent.config) is called at the current time
IsWithinActiveHoursCall(i) ==
  /\ i \in DOMAIN agents
  /\ lastOp' = Op("isWithinActiveHours", i,
                  IF IsWithinActiveHours(agents[i].config, clock)
                  THEN "true" ELSE "false",
                  clock, {})
  /\ UNCHANGED <<ex, factory, returned, lapse, stopCall, clock, dayStart, agents, running, timer,
                 chain, startsAwaiting>>

InitGate ==
  /\ clock = 0
  /\ dayStart \in GateDayStartChoices
  /\ \E cs \in ConfigsOf(1, {1}, GateWindowChoices) : agents = Construct(cs, 0)
  /\ running = FALSE
  /\ timer = 0
  /\ chain = [c \in Chains |-> Idle]
  /\ startsAwaiting = 0
  /\ lastOp = NoOp
  /\ ex = ExIdle
  /\ factory = FactoryIdle
  /\ returned = <<>>
  /\ lapse = NoLapse
  /\ stopCall = ""

NextGate ==
  \/ \E i \in DOMAIN agents : IsWithinActiveHoursCall(i)
  \/ Tick

SpecGate == InitGate /\ [][NextGate]_vars

\* ---------------------------------------------------------------- getAgentStates
\* getAgentStates(): Array.from(this.agents.values()), a new array holding
\* the AgentState objects of the map themselves
GetAgentStates ==
  /\ returned' = [k \in 1..Len(agents) |-> k]
  /\ lastOp' = Op("getAgentStates", 0, "", clock, {})
  /\ UNCHANGED <<ex, factory, lapse, stopCall, clock, dayStart, agents, running,
                 timer, chain, startsAwaiting>>

\* what a caller assigns to the nextDueMs of a state it was given
WrittenDueChoices == {0}

\* the caller assigns to a field of an element of the array: the element is
\* the scheduler's own AgentState object
CallerWritesState(k, due) ==
  /\ k \in DOMAIN returned
  /\ agents[returned[k]].nextDueMs # due
  /\ agents' = [agents EXCEPT ![returned[k]].nextDueMs = due]
  /\ lastOp' = Op("callerWrites", returned[k], "", clock, {})
  /\ UNCHANGED <<ex, factory, returned, lapse, stopCall, clock, dayStart, running, timer, chain,
                 startsAwaiting>>

\* the caller removes the last element of the array (states.pop())
CallerDropsState ==
  /\ returned # <<>>
  /\ returned' = SubSeq(returned, 1, Len(returned) - 1)
  /\ lastOp' = Op("callerDrops", 0, "", clock, {})
  /\ UNCHANGED <<ex, factory, lapse, stopCall, clock, dayStart, agents, running,
                 timer, chain, startsAwaiting>>

\* The scheduler, started and never stopped, with a caller that reads the
\* agent states and changes what it was given.
NextStates ==
  \/ Start
  \/ NotifierStarted
  \/ \E c \in Chains : TimerFire(c)
  \/ \E c \in Chains : \E res \in InvokeSettlements : InvokeDone(c, res)
  \/ \E c \in Chains : \E out \in SendOutcomes : SendDone(c, out)
  \/ Tick
  \/ GetAgentStates
  \/ \E k \in DOMAIN returned : \E due \in WrittenDueChoices :
       CallerWritesState(k, due)
  \/ CallerDropsState

SpecStates == Init /\ [][NextStates]_vars

\* ---------------------------------------------------------------- executor
\* mutant: the result message does not look for the sentinel
ResultNotifyKeeps(finalResponse, shouldNotify) == shouldNotify

\* shouldNotify after a text block: false if the block's text includes the
\* sentinel, true otherwise
TextNotify(text) == ~Includes(text, Sentinel)

\* shouldNotify after the result message: false if the final response
\* includes the sentinel, else left as it was
ResultNotify(finalResponse, shouldNotify) ==
  IF Includes(finalResponse, Sentinel) THEN FALSE ELSE shouldNotify

\* for (const block of message.content)
RECURSIVE HandleBlocks(_, _)
HandleBlocks(e, content) ==
  IF content = <<>> THEN e
  ELSE LET block == Head(content) IN
    HandleBlocks(
      IF block.type = "text"
      THEN [e EXCEPT !.output = @ \o block.text,
                     !.shouldNotify = TextNotify(block.text),
                     !.blocks = @ + 1,
                     !.acc = @ \o block.text]
      ELSE e,
      Tail(content))

\* mutant: only the first session id of a stream is stored
TrackFirstSession(e, sid) ==
  [e EXCEPT !.started = TRUE,
            !.sessionId = IF sid # 0 /\ e.lastSeen = 0 THEN sid ELSE @,
            !.lastSeen = IF sid # 0 THEN sid ELSE @]

\* "Store session ID if available", at the end of every iteration; sid is
\* msg.session_id
TrackSession(e, sid) ==
  [e EXCEPT !.started = TRUE,
            !.sessionId = IF sid # 0 /\ sid # @ THEN sid ELSE @,
            !.lastSeen = IF sid # 0 THEN sid ELSE @]

\* mutant: query() called outside the try, a failure before the first
\* message leaves executeHeartbeat as a rejection
ThrowEscapes(e, at) ==
  IF at = "first"
  THEN [e EXCEPT !.pc = "thrown", !.threwAt = at]
  ELSE [e EXCEPT !.pc = "returned", !.threwAt = at, !.ret = Failure]

\* mutant: the catch stores the session id the stream had reached
OnThrowStoresSession(e, at) ==
  [e EXCEPT !.pc = "returned", !.threwAt = at, !.ret = Failure,
            !.agentSession = e.sessionId]

\* the catch of executeHeartbeat
OnThrow(e, at) ==
  [e EXCEPT !.pc = "returned", !.threwAt = at, !.ret = Failure]

\* where the stream is when it raises
ThrowPlace(e) ==
  IF e.pc = "final" THEN "final"
  ELSE IF e.started THEN "between"
  ELSE "first"

ExStep(e) ==
  /\ ex' = e
  /\ UNCHANGED <<clock, dayStart, agents, running, timer, chain,
                 startsAwaiting, lastOp, factory, returned, lapse, stopCall>>

\* loadHeartbeatPrompt settles: HEARTBEAT.md read, or the default prompt from
\* its own catch; executeHeartbeat goes on to query() and the for await
LoadPrompt(found) ==
  /\ ex.pc = "load"
  /\ ExStep([ex EXCEPT !.pc = "stream",
                       !.sessionId = ex.agentSession,
                       !.resume = ex.agentSession])

\* the stream delivers an assistant message
AssistantMessage(content, sid) ==
  /\ ex.pc = "stream"
  /\ ExStep(TrackSession(HandleBlocks(ex, content), sid))

\* the stream delivers a message of another type (system, user)
OtherMessage(sid) ==
  /\ ex.pc = "stream"
  /\ ExStep(TrackSession(ex, sid))

\* the stream delivers the result message, its last message
ResultMessage(resultText, sid) ==
  /\ ex.pc = "stream"
  /\ \E finalResponse \in {ExtractFinalResponse(resultText)} :
       ExStep(TrackSession(
         [ex EXCEPT !.pc = "final",
                    !.hadResult = TRUE,
                    !.resultText = resultText,
                    !.output = finalResponse,
                    !.shouldNotify = ResultNotify(finalResponse, @)], sid))

\* the stream ends: agent.sessionId = sessionId and the result is returned
StreamEnds ==
  /\ ex.pc \in {"stream", "final"}
  /\ ExStep([ex EXCEPT !.pc = "returned",
                       !.agentSession = ex.sessionId,
                       !.ret = Success(ex.shouldNotify, ex.output)])

\* query() or the stream raises
StreamThrows ==
  /\ ex.pc \in {"stream", "final"}
  /\ ExStep(OnThrow(ex, ThrowPlace(ex)))

InitExec ==
  /\ clock = 0
  /\ dayStart \in DayStartChoices
  /\ agents = <<>>
  /\ running = FALSE
  /\ timer = 0
  /\ chain = [c \in Chains |-> Idle]
  /\ startsAwaiting = 0
  /\ lastOp = NoOp
  /\ \E a \in AgentSessionChoices, m \in StreamSessionChoices,
        k \in AckMaxCharsChoices : ex = ExState("load", a, m, k)
  /\ factory = FactoryIdle
  /\ returned = <<>>
  /\ lapse = NoLapse
  /\ stopCall = ""

NextExec ==
  \/ \E found \in BOOLEAN : LoadPrompt(found)
  \/ \E content \in ContentChoices(MaxBlocks - ex.blocks) :
       AssistantMessage(content, ex.streamSession)
  \/ OtherMessage(ex.streamSession)
  \/ \E resultText \in ResultChoices :
       ResultMessage(resultText, ex.streamSession)
  \/ StreamEnds
  \/ StreamThrows

SpecExec == InitExec /\ [][NextExec]_vars

\* ---------------------------------------------------------------- executor, called again
\* What the streams of repeated calls deliver: one block at most per
\* assistant message, a short result text, any session id on any message.
CallContentChoices == {<<>>, <<ToolUse>>, <<Text(<<"a">>)>>, <<Text(Sentinel)>>}
CallResultChoices == {<<>>, <<"a">>, Sentinel}

\* the scheduler calls executeHeartbeat for the same agent again, the call
\* before having returned; the AgentState is the same object
Invoke ==
  /\ ex.pc = "returned"
  /\ ex.prior.n + 1 < MaxCalls
  /\ ExStep([ExState("load", ex.agentSession, ex.streamSession, ex.ackMaxChars)
               EXCEPT !.prior = [n |-> ex.prior.n + 1,
                                 token |-> ex.agentSession,
                                 ret |-> ex.ret,
                                 hadResult |-> ex.hadResult]])

InitCalls ==
  /\ clock = 0
  /\ dayStart \in DayStartChoices
  /\ agents = <<>>
  /\ running = FALSE
  /\ timer = 0
  /\ chain = [c \in Chains |-> Idle]
  /\ startsAwaiting = 0
  /\ lastOp = NoOp
  /\ \E a \in AgentSessionChoices : ex = ExState("load", a, 0, 0)
  /\ factory = FactoryIdle
  /\ returned = <<>>
  /\ lapse = NoLapse
  /\ stopCall = ""

NextCalls ==
  \/ \E found \in BOOLEAN : LoadPrompt(found)
  \/ \E content \in CallContentChoices, sid \in MsgSessionChoices :
       /\ ex.blocks + TextBlocksIn(content) <= MaxBlocks
       /\ AssistantMessage(content, sid)
  \/ \E sid \in MsgSessionChoices : OtherMessage(sid)
  \/ \E resultText \in CallResultChoices, sid \in MsgSessionChoices :
       ResultMessage(resultText, sid)
  \/ StreamEnds
  \/ StreamThrows
  \/ Invoke

SpecCalls == InitCalls /\ [][NextCalls]_vars

\* ---------------------------------------------------------------- notifier factory
\* mutant: new SlackNotifier(...) outside the try
CreateNotifierNoCatch(config, slackThrows) ==
  IF config.notifications /\ config.slack /\ config.enabled
  THEN IF ~Truthy(config.botToken) \/ ~Truthy(config.appToken) THEN "console"
       ELSE IF slackThrows THEN "throw" ELSE "slack"
  ELSE "console"

\* createNotifier(config): which notifier it returns
CreateNotifier(config, slackThrows) ==
  IF config.notifications /\ config.slack /\ config.enabled
  THEN IF ~Truthy(config.botToken) \/ ~Truthy(config.appToken) THEN "console"
       ELSE IF slackThrows THEN "console" ELSE "slack"
  ELSE "console"

\* one call of createNotifier
CreateNotifierCall ==
  /\ factory.pc = "call"
  /\ \E out \in {CreateNotifier(factory.config, factory.slackThrows)} :
       factory' = [factory EXCEPT !.pc = IF out = "throw" THEN "thrown" ELSE "returned",
                                  !.notifier = IF out = "throw" THEN "none" ELSE out]
  /\ UNCHANGED <<clock, dayStart, agents, running, timer, chain,
                 startsAwaiting, lastOp, ex, returned, lapse, stopCall>>

InitFactory ==
  /\ clock = 0
  /\ dayStart \in DayStartChoices
  /\ agents = <<>>
  /\ running = FALSE
  /\ timer = 0
  /\ chain = [c \in Chains |-> Idle]
  /\ startsAwaiting = 0
  /\ lastOp = NoOp
  /\ ex = ExIdle
  /\ returned = <<>>
  /\ lapse = NoLapse
  /\ stopCall = ""
  /\ \E config \in AppConfigs, slackThrows \in BOOLEAN :
       factory = FactoryState("call", config, slackThrows)

NextFactory == CreateNotifierCall

SpecFactory == InitFactory /\ [][NextFactory]_vars

\* this.timer is undefined whenever the scheduler is not running, and a
\* handle it holds is that of a callback not yet finished
TimerHandleOk ==
  /\ ~running => timer = 0
  /\ timer # 0 => chain[timer].st # "idle"

\* ================================================================ properties
AgentIds == DOMAIN agents

InFlight(ch, st, i) == Cardinality({c \in Chains : ch[c].st = st /\ ch[c].idx = i})

\* this step calls executeHeartbeat for agent i / notifier.send for agent i
InvokeStarted(i) == InFlight(chain', "invoke", i) > InFlight(chain, "invoke", i)
SendStarted(i) == InFlight(chain', "send", i) > InFlight(chain, "send", i)

\* this step calls setTimeout with a callback due at d
Armed(d) ==
  Cardinality({c \in Chains : chain'[c] = Pending(d)})
    > Cardinality({c \in Chains : chain[c] = Pending(d)})

ArmedDues == {chain'[c].due : c \in {x \in Chains : chain'[x].st = "timer"}}

\* this step ends an attempt for agent i: its invocation settled without a
\* send to follow, its send settled, or it was skipped at the gate
InvokeEnded(i, outs) ==
  lastOp'.op = "invokeDone" /\ lastOp'.agent = i /\ lastOp'.out \in outs
SendEnded(i, outs) ==
  lastOp'.op = "sendDone" /\ lastOp'.agent = i /\ lastOp'.out \in outs
AttemptEnded(i) ==
  \/ InvokeEnded(i, {"quiet", "fail", "throw"})
  \/ SendEnded(i, SendOutcomes)
  \/ i \in lastOp'.skipped

LeastDue(ags) ==
  CHOOSE m \in {ags[i].nextDueMs : i \in DOMAIN ags} :
    \A j \in DOMAIN ags : m <= ags[j].nextDueMs

InWindow(i, now) ==
  LET w == agents[i].config.activeHours
      t == (dayStart + now) % MinutesPerDay
  IN ~w.set \/ (  w.start[1] * MinutesPerHour + w.start[2] <= t
               /\ t <= w.end[1] * MinutesPerHour + w.end[2])

\* C1 (as claimed): while the scheduler is not running (from stop() to the
\* next start()) no step calls executeHeartbeat or notifier.send.
C1_SilentWhileStopped ==
  [][(~running /\ ~running') =>
       \A i \in AgentIds : ~InvokeStarted(i) /\ ~SendStarted(i)]_vars

\* C2 (as claimed): every attempt for an agent leaves its nextDueMs at the
\* previous nextDueMs plus exactly intervalMs.
C2_AdvanceByExactlyInterval ==
  [][\A i \in AgentIds : AttemptEnded(i) =>
       agents'[i].nextDueMs = agents[i].nextDueMs + agents[i].intervalMs]_vars

\* C2 (amended): every attempt for an agent (invocation settled with
\* success, failure result or rejection, send settled, or active-hours skip)
\* leaves its nextDueMs at the clock time at which the attempt ended plus
\* exactly intervalMs.
C2_AdvanceFromCompletion ==
  [][\A i \in AgentIds : AttemptEnded(i) =>
       agents'[i].nextDueMs = clock + agents[i].intervalMs]_vars

\* C2 witness: an invocation that took time has failed and the agent is
\* rescheduled from the time of the failure.
C2_Witness ==
  /\ lastOp.op = "invokeDone" /\ lastOp.out = "fail"
  /\ lastOp.now0 < clock
  /\ agents[lastOp.agent].nextDueMs = clock + agents[lastOp.agent].intervalMs

\* C3: every timer armed is due at now + max(0, min nextDueMs - now), and
\* executeHeartbeat is never called for an agent before its nextDueMs.
C3_TimerAtEarliestDue ==
  [][/\ \A d \in ArmedDues : Armed(d) =>
          /\ Len(agents') > 0
          /\ d = clock + Max(0, LeastDue(agents') - clock)
     /\ \A i \in AgentIds : InvokeStarted(i) => clock >= agents[i].nextDueMs]_vars

\* C3 witness: after a firing, a timer is pending for the earlier of two
\* different due times, which lies in the future.
C3_Witness ==
  /\ lastOp.op \in {"invokeDone", "sendDone"}
  /\ Len(agents) = 2
  /\ agents[1].nextDueMs > agents[2].nextDueMs
  /\ timer # 0 /\ chain[timer] = Pending(agents[2].nextDueMs)
  /\ agents[2].nextDueMs > clock

\* the due agents after agent i in the firing whose loop started at now0
Remaining(i, now0) == {j \in AgentIds : j > i /\ now0 >= agents[j].nextDueMs}

\* after the attempt for agent i ended in this step: agent i is rescheduled
\* past the start of the firing; every remaining due
\* agent of the firing is skipped at the gate, invoked, or waits behind the
\* one that is invoked; and when the firing ends in a running scheduler a
\* timer is armed that is due no later than agent i's new nextDueMs
LoopGoesOn(i) ==
  /\ agents'[i].nextDueMs = clock + agents[i].intervalMs
  /\ agents'[i].nextDueMs > lastOp'.now0
  /\ \A j \in Remaining(i, lastOp'.now0) :
        \/ j \in lastOp'.skipped
        \/ \E k \in Remaining(i, lastOp'.now0) : k <= j /\ InvokeStarted(k)
  /\ (running /\ \A j \in AgentIds : ~InvokeStarted(j)) =>
        \E d \in ArmedDues : Armed(d) /\ d <= agents'[i].nextDueMs

\* C4: when executeHeartbeat returns success=false or rejects for a due
\* agent, the agent's nextDueMs is advanced, the remaining due agents of the
\* firing are still attempted, and (scheduler running) the timer is re-armed
\* no later than the failing agent's next due time.
C4_FailureIsolated ==
  [][\A i \in AgentIds : InvokeEnded(i, {"fail", "throw"}) => LoopGoesOn(i)]_vars

\* C4 witness: the first agent's invocation has thrown and the second due
\* agent of the same firing is being invoked.
C4_Witness ==
  /\ lastOp.op = "invokeDone" /\ lastOp.out = "throw" /\ lastOp.agent = 1
  /\ agents[1].nextDueMs = clock + agents[1].intervalMs
  /\ \E c \in Chains : chain[c] = Invoking(lastOp.now0, 2)

\* C5: when notifier.send() rejects, the agent's nextDueMs is advanced, the
\* remaining due agents of the firing are still attempted, the timer is
\* re-armed (scheduler running), and every later notify-worthy result is
\* again passed to send().
C5_SendFailureIsolated ==
  [][\A i \in AgentIds :
       /\ SendEnded(i, {"throw"}) => LoopGoesOn(i)
       /\ InvokeEnded(i, {"notify"}) => SendStarted(i)]_vars

\* C5 witness: the first agent's send has thrown and the second due agent
\* of the same firing is being invoked.
C5_Witness ==
  /\ lastOp.op = "sendDone" /\ lastOp.out = "throw" /\ lastOp.agent = 1
  /\ agents[1].nextDueMs = clock + agents[1].intervalMs
  /\ \E c \in Chains : chain[c] = Invoking(lastOp.now0, 2)

\* C6: executeHeartbeat is only called for an agent inside its window (or
\* without a window); an agent skipped at the gate has a window, is outside
\* it, is not invoked in that step and is advanced by its interval from the
\* current time; a due agent outside its window that the loop reaches is
\* skipped.
C6_ActiveHoursGate ==
  [][\A i \in AgentIds :
       /\ InvokeStarted(i) => InWindow(i, clock)
       /\ i \in lastOp'.skipped =>
            /\ agents[i].config.activeHours.set
            /\ ~InWindow(i, clock)
            /\ ~InvokeStarted(i)
            /\ agents'[i].nextDueMs = clock + agents[i].intervalMs
            /\ agents'[i].nextDueMs >= agents[i].nextDueMs + agents[i].intervalMs
       /\ (lastOp'.op = "fire" /\ clock >= agents[i].nextDueMs /\ ~InWindow(i, clock)
            /\ \A k \in AgentIds : InvokeStarted(k) => i < k)
            => i \in lastOp'.skipped]_vars

\* C6 witness: a due agent was skipped outside its window and rescheduled.
C6_Witness ==
  \E i \in AgentIds :
    /\ i \in lastOp.skipped
    /\ agents[i].config.activeHours.set
    /\ agents[i].nextDueMs = clock + agents[i].intervalMs

\* C7 (zero latency, started at construction): an agent is only invoked at
\* a positive multiple of its interval, no multiple is passed over (its
\* nextDueMs is always the multiple at or next after the clock), and with
\* intervals 3, 5, 7 the invocations up to time 7 are agent 1 at 3, agent 2
\* at 5, agent 1 at 6 and agent 3 at 7.
C7_InvokedAtMultiples ==
  /\ \A c \in Chains : chain[c].st \in {"invoke", "send"} =>
        /\ clock % agents[chain[c].idx].intervalMs = 0
        /\ clock >= agents[chain[c].idx].intervalMs
        /\ agents[chain[c].idx].nextDueMs = clock
  /\ \A i \in AgentIds :
        /\ agents[i].nextDueMs % agents[i].intervalMs = 0
        /\ agents[i].nextDueMs >= clock
        /\ agents[i].nextDueMs <= clock + agents[i].intervalMs
  /\ ([i \in AgentIds |-> agents[i].intervalMs] = <<3, 5, 7>> /\ clock <= 7) =>
        \A c \in Chains : chain[c].st = "invoke" =>
          <<clock, chain[c].idx>> \in {<<3, 1>>, <<5, 2>>, <<6, 1>>, <<7, 3>>}

\* C7 witness: with intervals 3, 5, 7 the third agent is invoked at time 7,
\* when the first agent is due next at 9 and the second at 10.
C7_Witness ==
  /\ [i \in AgentIds |-> agents[i].intervalMs] = <<3, 5, 7>>
  /\ clock = 7
  /\ \E c \in Chains : chain[c] = Invoking(7, 3)
  /\ agents[1].nextDueMs = 9 /\ agents[2].nextDueMs = 10

\* C8 (as claimed): at most one executeHeartbeat call is in flight.
C8_OneInvocationInFlight ==
  Cardinality({c \in Chains : chain[c].st = "invoke"}) <= 1

\* C9 (as claimed): at most one timer is pending and at most one firing is
\* in progress.
C9_OneTimerOneFiring ==
  /\ Cardinality({c \in Chains : chain[c].st = "timer"}) <= 1
  /\ Cardinality({c \in Chains : chain[c].st \in {"invoke", "send"}}) <= 1

\* C10 (as claimed): whenever running is false no timer is pending.
C10_NoTimerWhileStopped ==
  ~running => \A c \in Chains : chain[c].st # "timer"

PendingTimers(ch) == Cardinality({c \in Chains : ch[c].st = "timer"})
Awaiting(ch) == Cardinality({c \in Chains : ch[c].st \in {"invoke", "send"}})

\* C11: start() called while the scheduler is running changes nothing:
\* notifier.start() is not called again, no timer is armed or cancelled,
\* no agent's nextDueMs changes and the call returns (running stays true).
C11_StartWhileRunningNoOp ==
  [][(running /\ Start) =>
       /\ startsAwaiting' = startsAwaiting
       /\ chain' = chain
       /\ timer' = timer
       /\ agents' = agents
       /\ running'
       /\ lastOp'.out = "noop"]_vars

\* C11 witness: start() has returned at once on a running scheduler whose
\* timer is pending.
C11_Witness ==
  /\ lastOp.op = "start" /\ lastOp.out = "noop"
  /\ running
  /\ timer # 0 /\ chain[timer].st = "timer"
  /\ Len(agents) > 0

\* C12: stop() on a running scheduler cancels the timer held in this.timer,
\* sets running to false and calls notifier.stop(); stop() on a scheduler
\* that is not running changes nothing and does not call notifier.stop(),
\* so a second stop() leaves the state the first one made.
C12_StopIdempotent ==
  [][Stop =>
       IF running
       THEN /\ ~running'
            /\ timer' = 0
            /\ PendingTimers(chain') =
                 PendingTimers(chain)
                   - (IF timer # 0 /\ chain[timer].st = "timer" THEN 1 ELSE 0)
            /\ Awaiting(chain') = Awaiting(chain)
            /\ lastOp'.op = "stop" /\ lastOp'.out = ""
            /\ agents' = agents
       ELSE /\ UNCHANGED <<running, timer, chain, agents, startsAwaiting>>
            /\ lastOp'.out = "noop"]_vars

\* C12 witness: stop() has returned at once on a scheduler that an earlier
\* stop() had stopped after it ran (an agent has been attempted).
C12_Witness ==
  /\ lastOp.op = "stop" /\ lastOp.out = "noop"
  /\ ~running
  /\ timer = 0
  /\ \E i \in AgentIds : agents[i].nextDueMs > agents[i].intervalMs

\* C13 (as claimed): for every agent at least its interval lies between the
\* end of one attempt and the start of its next invocation, so that the
\* agent is not invoked twice within one interval and is not due any more
\* when an attempt has ended.  The last attempt of agent i ended at
\* nextDueMs - intervalMs; an invocation still in flight began no earlier
\* than its firing (now0).
C13_IntervalBetweenInvocations ==
  [][\A i \in AgentIds :
       /\ InvokeStarted(i) =>
            /\ clock >= (agents[i].nextDueMs - agents[i].intervalMs)
                          + agents[i].intervalMs
            /\ \A c \in Chains :
                 (chain[c].st \in {"invoke", "send"} /\ chain[c].idx = i) =>
                   clock >= chain[c].now0 + agents[i].intervalMs
       /\ AttemptEnded(i) => agents'[i].nextDueMs > clock']_vars

\* this step is the settlement of an invocation of slot c's agent, begun in
\* a firing of the same start time, on the branch that res takes
SettledWith(c, res) ==
  /\ chain[c].st = "invoke"
  /\ lastOp'.op = "invokeDone"
  /\ lastOp'.agent = chain[c].idx
  /\ lastOp'.now0 = chain[c].now0
  /\ lastOp'.out = Outcome(res)

\* C14: notifier.send() is called for agent i exactly when an invocation of
\* i has settled with success = true, shouldNotify = true and a non-empty
\* output, and then once; a failed result, shouldNotify = false, an empty
\* output, a rejection or a skip at the active-hours gate starts no send.
C14_SendIffNotifiable ==
  [][/\ lastOp'.op = "invokeDone" =>
          \A c \in Chains : \A res \in InvokeSettlements :
            SettledWith(c, res) =>
              (SendStarted(chain[c].idx) <=>
                 (~res.threw /\ res.success /\ res.shouldNotify
                    /\ res.output # ""))
     /\ \A i \in AgentIds :
          SendStarted(i) =>
            /\ lastOp'.op = "invokeDone" /\ lastOp'.agent = i
            /\ InFlight(chain', "send", i) = InFlight(chain, "send", i) + 1
            /\ i \notin lastOp'.skipped]_vars

\* C14 witness: the invocation of an agent has settled with a result to be
\* sent and notifier.send() is in flight for that agent.
C14_Witness ==
  /\ lastOp.op = "invokeDone" /\ lastOp.out = "notify"
  /\ \E c \in Chains : chain[c] = Sending(lastOp.now0, lastOp.agent)

\* ---------------------------------------------------------------- executor properties
\* executeHeartbeat has returned a successful result for a stream that ended
\* with its result message; the classified output is then the output returned
Classified == ex.pc = "returned" /\ ex.ret.success /\ ex.hadResult

StartsWith(s, p) == Len(s) >= Len(p) /\ SubSeq(s, 1, Len(p)) = p
EndsWith(s, p) == Len(s) >= Len(p) /\ SubSeq(s, Len(s) - Len(p) + 1, Len(s)) = p

\* C15: when the classified output is exactly the sentinel, the result
\* returned has shouldNotify = false.
C15_ExactSentinelSilent ==
  (Classified /\ ex.ret.output = Sentinel) => ~ex.ret.shouldNotify

\* C15 witness: a text block without the sentinel had set shouldNotify, then
\* the result message brought exactly the sentinel (after trimming).
C15_Witness ==
  /\ Classified
  /\ ex.ret.output = Sentinel
  /\ ex.blocks > 0 /\ ~Includes(ex.acc, Sentinel)
  /\ ex.resultText # Sentinel
  /\ ~ex.ret.shouldNotify

\* the text left when the sentinel is taken from the front (or else from the
\* end) of the output, trimmed
AckRemaining(out) ==
  IF StartsWith(out, Sentinel) THEN Trim(Substring(out, Len(Sentinel)))
  ELSE Trim(SubSeq(out, 1, Len(out) - Len(Sentinel)))

\* C16 (as claimed): when the sentinel is followed or preceded by other
\* text, shouldNotify is false if the trimmed remaining text is no longer
\* than the threshold and true if it is longer.
C16_ThresholdOnRemainingText ==
  ( /\ Classified
    /\ ex.ret.output # Sentinel
    /\ StartsWith(ex.ret.output, Sentinel) \/ EndsWith(ex.ret.output, Sentinel) )
  => (ex.ret.shouldNotify <=> Len(AckRemaining(ex.ret.output)) > ex.ackMaxChars)

\* C17 (as claimed): when the sentinel occurs only inside the classified
\* output, neither at its front nor at its end, shouldNotify is true and the
\* output returned is the whole classified text.
C17_InteriorSentinelNotifies ==
  ( /\ Classified
    /\ Includes(ex.ret.output, Sentinel)
    /\ ~StartsWith(ex.ret.output, Sentinel)
    /\ ~EndsWith(ex.ret.output, Sentinel) )
  => /\ ex.ret.shouldNotify
     /\ ex.ret.output = ExtractFinalResponse(ex.resultText)

\* C18 (as claimed): when the sentinel occurs nowhere in what the engine
\* sent (text blocks and result message), a successful call returns
\* shouldNotify = true, whatever the stream.
C18_NoSentinelNotifies ==
  ( /\ ex.pc = "returned" /\ ex.ret.success
    /\ ex.hadResult \/ ex.blocks > 0
    /\ ~Includes(ex.acc, Sentinel)
    /\ ~Includes(ex.resultText, Sentinel) )
  => ex.ret.shouldNotify

\* C19 (as claimed): the classified output is the text after the marker,
\* trimmed, when the result message contains the marker, and else the text
\* accumulated from the stream, trimmed.
C19_MarkerOrAccumulatedText ==
  Classified =>
    ex.ret.output =
      IF Includes(ex.resultText, Marker)
      THEN Trim(Substring(ex.resultText,
                          IndexOf(ex.resultText, Marker) + Len(Marker)))
      ELSE Trim(ex.acc)

Blank(s) == \A k \in DOMAIN s : s[k] = Space

\* t is s without its leading and trailing whitespace
IsTrimOf(t, s) ==
  /\ Len(t) > 0 => (t[1] # Space /\ t[Len(t)] # Space)
  /\ \E i \in 0..Len(s) :
       /\ i + Len(t) <= Len(s)
       /\ SubSeq(s, i + 1, i + Len(t)) = t
       /\ Blank(SubSeq(s, 1, i))
       /\ Blank(SubSeq(s, i + Len(t) + 1, Len(s)))

\* what follows the first occurrence of the marker in s (no element if the
\* marker does not occur)
AfterFirstMarker(s) ==
  { SubSeq(s, k + Len(Marker), Len(s)) :
      k \in { k \in 1..(Len(s) - Len(Marker) + 1) :
                /\ SubSeq(s, k, k + Len(Marker) - 1) = Marker
                /\ \A j \in 1..(k - 1) :
                     SubSeq(s, j, j + Len(Marker) - 1) # Marker } }

\* C19 (amended): the classified output is the text after the first marker
\* of the result message, trimmed, and when the result message has no
\* marker it is the result message's own text, trimmed.
C19_MarkerOrResultText ==
  Classified =>
    IF AfterFirstMarker(ex.resultText) = {}
    THEN IsTrimOf(ex.ret.output, ex.resultText)
    ELSE \A after \in AfterFirstMarker(ex.resultText) :
           IsTrimOf(ex.ret.output, after)

\* C19 witness: text blocks came first, then a result message with
\* whitespace and text after the marker.
C19_Witness ==
  /\ Classified
  /\ ex.blocks > 0 /\ ex.acc = Sentinel
  /\ ex.resultText = Marker \o <<Space, "a">>
  /\ ex.ret.output = <<"a">>

\* C20: executeHeartbeat does not reject; when query() or its stream raises,
\* before the first message, between messages or after the result message,
\* it returns success = false, shouldNotify = false, output = '' and the
\* error.
C20_NeverThrows ==
  /\ ex.pc # "thrown"
  /\ ex.threwAt # "" =>
       /\ ex.pc = "returned"
       /\ ~ex.ret.success /\ ~ex.ret.shouldNotify
       /\ ex.ret.output = <<>>
       /\ ex.ret.error

\* C20 witness: the stream raised after the result message, when output and
\* shouldNotify were set.
C20_Witness ==
  /\ ex.threwAt = "final"
  /\ ex.pc = "returned"
  /\ ex.output # <<>> /\ ex.shouldNotify
  /\ ex.ret = Failure

\* C21: after a successful call agent.sessionId is the last session id that
\* a message of the stream carried, or what it was before the call when no
\* message carried one; and every call gives query() as its resume option
\* the token the calls before it left on the agent.
C21_SessionTokenCarried ==
  /\ (ex.pc = "returned" /\ ex.ret.success) =>
       ex.agentSession = IF ex.lastSeen # 0 THEN ex.lastSeen ELSE ex.prior.token
  /\ ex.pc \in {"stream", "final", "returned"} => ex.resume = ex.prior.token
  /\ (ex.prior.n > 0 /\ ex.pc = "load") => ex.agentSession = ex.prior.token

\* a second call resumed session 1, which the first call had stored, and saw
\* session 2 last
C21_Witness ==
  /\ ex.pc = "returned"
  /\ ex.ret.success
  /\ ex.prior.n = 1
  /\ ex.prior.ret.success
  /\ ex.resume = 1
  /\ ex.sessionId = 2
  /\ ex.agentSession = 2

\* C22: createNotifier never throws; it returns the Slack notifier exactly
\* when slack is configured and enabled, both tokens are there and the
\* SlackNotifier constructor does not raise, and the console notifier in
\* every other case.
C22_FactoryTotal ==
  factory.pc \notin {"idle", "call"} =>
    /\ factory.pc = "returned"
    /\ factory.notifier \in {"slack", "console"}
    /\ factory.notifier = "slack" <=>
         /\ factory.config.notifications
         /\ factory.config.slack
         /\ factory.config.enabled
         /\ factory.config.botToken \notin {Undefined, ""}
         /\ factory.config.appToken \notin {Undefined, ""}
         /\ ~factory.slackThrows

\* enabled with both tokens, the constructor raised: the console notifier
C22_Witness ==
  /\ factory.pc = "returned"
  /\ factory.config.enabled
  /\ factory.config.botToken = "xoxb"
  /\ factory.config.appToken = "xapp"
  /\ factory.slackThrows
  /\ factory.notifier = "console"

\* C23: no step of executeHeartbeat writes the AgentState it was given:
\* agent.sessionId is the same after every step of a call as before it.
C23_AgentStateNotMutated ==
  [][ex'.agentSession = ex.agentSession]_vars

\* C24: getAgentStates() gives one state per configured agent, and neither
\* the call nor anything the caller does with the array it got changes the
\* scheduler's agent states, timer or running flag.
C24_SnapshotReadOnly ==
  [][lastOp'.op \in {"getAgentStates", "callerWrites", "callerDrops"} =>
       /\ Len(returned') <= Len(agents)
       /\ lastOp'.op = "getAgentStates" => returned' = [k \in 1..Len(agents) |-> k]
       /\ agents' = agents
       /\ timer' = timer
       /\ running' = running]_vars

\* C25: the gate answers true when no window is configured; with a window
\* it answers true exactly when start <= local minute of the day <= end:
\* true at start and at end, false one minute before start and one minute
\* after end.  The call changes nothing of the scheduler.
LocalMinute == (dayStart + clock) % MinutesPerDay
GateAnswer == lastOp.out = "true"

C25_GateInclusive ==
  lastOp.op = "isWithinActiveHours" =>
    LET w == agents[lastOp.agent].config.activeHours
        from == w.start[1] * 60 + w.start[2]
        to == w.end[1] * 60 + w.end[2]
    IN /\ lastOp.out \in {"true", "false"}
       /\ ~w.set => GateAnswer
       /\ w.set => (GateAnswer <=> (from <= LocalMinute /\ LocalMinute <= to))
       /\ (w.set /\ from <= to /\ LocalMinute \in {from, to}) => GateAnswer
       /\ (w.set /\ LocalMinute \in {from - 1, to + 1}) => ~GateAnswer
       /\ running = FALSE /\ timer = 0 /\ returned = <<>>
       /\ \A k \in DOMAIN agents : agents[k].nextDueMs = agents[k].intervalMs

\* the gate was asked at 09:02 about the window 09:00-09:02 and said true
C25_Witness ==
  /\ lastOp.op = "isWithinActiveHours"
  /\ agents[1].config.activeHours = ActiveHours(HHMM(9, 0), HHMM(9, 2))
  /\ LocalMinute = 9 * 60 + 2
  /\ GateAnswer

\* C26: when the attempt for an agent ends (its invocation settled and
\* nothing is sent, or its send settled) its nextDueMs is the clock time of
\* that moment plus its interval, later than the firing's start plus the
\* interval when the attempt took time; so the agent is not due then, neither
\* at the current time nor for any firing under way.
C26_NotDueAfterOwnAttempt ==
  [][\A i \in AgentIds :
       (InvokeEnded(i, {"quiet", "fail", "throw"}) \/ SendEnded(i, SendOutcomes)) =>
         /\ agents'[i].nextDueMs = clock' + agents'[i].intervalMs
         /\ lastOp'.now0 < clock' =>
              agents'[i].nextDueMs > lastOp'.now0 + agents'[i].intervalMs
         /\ ~IsDue(agents'[i], clock')
         /\ \A c \in Chains :
              chain'[c].st \in {"invoke", "send"} => ~IsDue(agents'[i], chain'[c].now0)]_vars

\* an invocation lasted at least the agent's interval and ended quietly: the
\* agent is due one interval after the end
C26_Witness ==
  /\ lastOp.op = "invokeDone" /\ lastOp.out = "quiet"
  /\ lastOp.now0 + agents[lastOp.agent].intervalMs <= clock
  /\ agents[lastOp.agent].nextDueMs = clock + agents[lastOp.agent].intervalMs

\* this step ends a firing: a timer callback ran its loop to the end
FiringEnds ==
  /\ lastOp'.op \in {"fire", "invokeDone", "sendDone"}
  /\ \A i \in AgentIds : ~InvokeStarted(i) /\ ~SendStarted(i)

\* C27: while the scheduler is running with at least one agent, every firing
\* ends by arming a new timer, whether or not an agent was due in it and
\* whatever its invocations and sends settled with; with no agents no timer
\* is ever pending.
C27_FiringRearms ==
  [][ /\ (FiringEnds /\ running' /\ Len(agents) > 0) =>
          /\ \E d \in ArmedDues : Armed(d) /\ d >= clock'
          /\ timer' # 0 /\ chain'[timer'].st = "timer"
      /\ Len(agents) = 0 => \A c \in Chains : chain'[c].st = "idle" ]_vars

\* a firing in which no agent was due (another firing had just attempted
\* them) has ended, and timers are pending
C27_Witness ==
  /\ lastOp.op = "fire"
  /\ lastOp.skipped = {}
  /\ running
  /\ timer # 0
  /\ \A c \in Chains : chain[c].st = "timer"

\* C28: a firing attempts every agent that was due when it began: its loop
\* never passes over such an agent as not due.
C28_DueAtStartAttempted ==
  lastOp.missed = {}

\* C29: the notify flag is a function of the classified output: two calls
\* that both succeeded, each on a stream ending with a result message, and
\* returned the same output returned the same shouldNotify.
C29_NotifyFunctionOfOutput ==
  ( /\ ex.pc = "returned" /\ ex.ret.success /\ ex.hadResult
    /\ ex.prior.n > 0 /\ ex.prior.ret.success /\ ex.prior.hadResult
    /\ ex.prior.ret.output = ex.ret.output )
  => ex.prior.ret.shouldNotify = ex.ret.shouldNotify

\* this step ends an attempt for agent j, or is the step in which the
\* invocation for agent j settled
AttemptStep(j) ==
  \/ lastOp'.op \in {"invokeDone", "sendDone"} /\ lastOp'.agent = j
  \/ j \in lastOp'.skipped

\* C30: a step changes the state of an agent only as part of an attempt for
\* that agent, and then only its nextDueMs and its sessionId (the latter only
\* when its invocation returned success); every other agent keeps nextDueMs,
\* interval and sessionId; no nextDueMs ever decreases.
C30_AttemptTouchesOwnAgentOnly ==
  [][\A j \in AgentIds :
       /\ agents'[j].config = agents[j].config
       /\ agents'[j].intervalMs = agents[j].intervalMs
       /\ agents'[j].nextDueMs >= agents[j].nextDueMs
       /\ agents'[j] # agents[j] => AttemptStep(j)
       /\ agents'[j].sessionId # agents[j].sessionId =>
            /\ lastOp'.op = "invokeDone" /\ lastOp'.agent = j
            /\ lastOp'.out \in {"notify", "quiet"}]_vars

\* the invocation for the first of two agents has stored session 1, the
\* second agent keeps the session 2 and the due time of its own last attempt
C30_Witness ==
  /\ Len(agents) = 2
  /\ lastOp.op = "invokeDone" /\ lastOp.agent = 1
  /\ agents[1].sessionId = 1
  /\ agents[2].sessionId = 2
  /\ agents[2].nextDueMs < agents[1].nextDueMs

\* C31: the message passed to notifier.send has as text the output that
\* executeHeartbeat returned, as agent id the agent just invoked, and as
\* session id the last session id of the stream just consumed, or the
\* agent's earlier session id when the stream carried none.
C31_MessageFromResult ==
  [][\A i \in AgentIds : SendStarted(i) =>
       /\ lastOp'.op = "invokeDone" /\ lastOp'.agent = i
       /\ lastOp'.res.success /\ lastOp'.res.shouldNotify
       /\ lastOp'.msg.text = lastOp'.res.output
       /\ lastOp'.msg.text # ""
       /\ lastOp'.msg.agentId = i
       /\ lastOp'.msg.sessionId =
            IF lastOp'.res.session # 0 THEN lastOp'.res.session
            ELSE agents[i].sessionId
       /\ lastOp'.msg.sessionId = agents'[i].sessionId]_vars

\* the second agent, whose session was 1, has been invoked again, the stream
\* carried session 2 and returned "more": that is what is being sent
C31_Witness ==
  /\ lastOp.op = "invokeDone" /\ lastOp.agent = 2
  /\ lastOp.res.session = 2
  /\ lastOp.msg = [text |-> "more", agentId |-> 2, sessionId |-> 2]
  /\ \E c \in Chains : chain[c].st = "send" /\ chain[c].idx = 2

\* C32: whenever the scheduler is running with at least one agent and
\* neither a firing nor a start() call is in progress, a timer is pending.
C32_RunningHasTimer ==
  ( /\ running
    /\ Len(agents) > 0
    /\ startsAwaiting = 0
    /\ Awaiting(chain) = 0 )
  => PendingTimers(chain) > 0

\* the last step ended an attempt for agent i
AttemptJustEnded(i) ==
  \/ /\ lastOp.op = "invokeDone" /\ lastOp.agent = i
     /\ lastOp.out \in {"quiet", "fail", "throw"}
  \/ lastOp.op = "sendDone" /\ lastOp.agent = i
  \/ i \in lastOp.skipped

\* C33: with the scheduler started and not stopped, every invocation and
\* every send settling and time going on, an attempt for each agent ends
\* again and again.
C33_NoStarvation ==
  \A i \in 1..2 : []<>AttemptJustEnded(i)

\* the second agent, the one with the longer interval, has been attempted
\* after the clock had stopped counting up, the first one having been
\* attempted since it was last due
C33_Witness ==
  /\ clock = MaxLag
  /\ agents[1].intervalMs < agents[2].intervalMs
  /\ AttemptJustEnded(2)
  /\ agents[2].nextDueMs = clock + agents[2].intervalMs
  /\ agents[1].nextDueMs > agents[1].intervalMs

\* C34: stop() has not just called notifier.stop() while a notifier.start()
\* issued by start() is still pending.
C34_NoStopDuringStart ==
  (lastOp.op = "stop" /\ lastOp.out = "") => startsAwaiting = 0

\* C35: when start() resumes from its await with running false (stop() was
\* called meanwhile), it arms no timer, and the scheduler is then not
\* running with no timer pending.
C35_StoppedStartArmsNothing ==
  [][(startsAwaiting' < startsAwaiting /\ ~running) =>
        /\ chain' = chain
        /\ timer' = 0
        /\ ~running'
        /\ PendingTimers(chain') = 0]_vars

\* C36: the firing of the timer that start() armed after a stop() passes
\* over no agent whose nextDueMs had passed while the scheduler was stopped.
C36_RestartFiringAttemptsLapsed ==
  lastOp.missed \cap lastOp.lapsed = {}

\* C37: a firing invokes (or skips at the gate) only agents that were due at
\* the time it began, so an agent that became due while it was in progress
\* is left out of it; when the firing ends with such an agent due, the timer
\* is re-armed for the present moment; and the firing that then begins takes
\* up every agent due at its start and passes over none of them.
C37_LateDueWaitsForNextFiring ==
  [][ /\ \A j \in AgentIds :
           (InvokeStarted(j) \/ j \in lastOp'.skipped) =>
             agents[j].nextDueMs <= lastOp'.now0
      /\ (/\ FiringEnds /\ running'
          /\ \E j \in AgentIds : /\ lastOp'.now0 < agents'[j].nextDueMs
                                  /\ agents'[j].nextDueMs <= clock') =>
            Armed(clock')
      /\ lastOp'.op = "fire" =>
            \A j \in AgentIds :
              IsDue(agents[j], clock) =>
                \/ j \in lastOp'.skipped
                \/ \E c \in Chains : /\ chain'[c].st = "invoke"
                                      /\ chain'[c].now0 = clock
                                      /\ (chain'[c].idx = j \/ j \in chain'[c].todo)
      /\ lastOp'.missed = {} ]_vars

\* a firing has ended after its start time was passed by the due time of an
\* agent it did not attempt, and the timer is pending for the present moment
C37_Witness ==
  /\ lastOp.op \in {"invokeDone", "sendDone"}
  /\ \E j \in AgentIds : /\ j # lastOp.agent
                          /\ lastOp.now0 < agents[j].nextDueMs
                          /\ agents[j].nextDueMs <= clock
  /\ \E c \in Chains : chain[c] = Pending(clock)
  /\ \A c \in Chains : chain[c].st \in {"idle", "timer"}

\* C38: when the stream raises, whatever session ids its messages carried,
\* executeHeartbeat returns a failure and agent.sessionId is the value it had
\* when the call began (the one given to query() as resume).
C38_FailedStreamKeepsToken ==
  (ex.pc = "returned" /\ ex.threwAt # "") =>
    /\ ex.ret = Failure
    /\ ex.agentSession = ex.resume
    /\ ex.agentSession = ex.prior.token

\* the stream raised after a message that carried a session id other than
\* the agent's, in a call that began with a session id stored
C38_Witness ==
  /\ ex.pc = "returned" /\ ex.threwAt = "between"
  /\ ex.lastSeen # 0 /\ ex.lastSeen # ex.agentSession
  /\ ex.sessionId = ex.lastSeen
  /\ ex.agentSession # 0

\* C39: while the scheduler is stopped by a stop() whose notifier.stop()
\* was rejected, no timer is pending and no step calls executeHeartbeat.
C39_RejectedStopStillStops ==
  [][(~running /\ stopCall = "rejected") =>
        /\ PendingTimers(chain) = 0
        /\ \A i \in AgentIds : ~InvokeStarted(i)]_vars

\* agent i has a window whose start is later than its end
Inverted(i) ==
  /\ agents[i].config.activeHours.set
  /\ Minutes(agents[i].config.activeHours.start)
       > Minutes(agents[i].config.activeHours.end)

\* C40: for an agent whose window has its start later than its end the gate
\* answers false at every minute of the day; no step calls executeHeartbeat
\* or notifier.send for it; a firing that begins while it is due skips it,
\* at once or when its loop reaches it, never passing it over; a skip sets
\* its nextDueMs to the time of the skip plus its interval, and nothing else
\* changes its state.
C40_InvertedWindowAlwaysClosed ==
  [][\A i \in AgentIds :
       Inverted(i) =>
         /\ \A now \in 0..(MinutesPerDay - 1) :
              ~IsWithinActiveHours(agents[i].config, now)
         /\ ~InvokeStarted(i) /\ ~SendStarted(i)
         /\ (lastOp'.op = "fire" /\ IsDue(agents[i], clock)) =>
              \/ i \in lastOp'.skipped
              \/ \E c \in Chains : /\ chain'[c].st = "invoke"
                                    /\ chain'[c].now0 = clock
                                    /\ i \in chain'[c].todo
         /\ i \notin lastOp'.missed
         /\ i \in lastOp'.skipped =>
              agents'[i].nextDueMs = clock' + agents[i].intervalMs
         /\ agents'[i] # agents[i] => i \in lastOp'.skipped]_vars

\* at 00:00 the agent with the window 22:00-02:00 was due and has been
\* skipped, after the invocation of the agent before it had taken time, and
\* is due again one interval later
C40_Witness ==
  /\ Len(agents) = 2
  /\ Inverted(2)
  /\ lastOp.op \in {"invokeDone", "sendDone"}
  /\ lastOp.now0 < clock
  /\ 2 \in lastOp.skipped
  /\ (dayStart + clock) % MinutesPerDay = 0
  /\ agents[2].nextDueMs = clock + agents[2].intervalMs

====
